---- MODULE Spec2Model ----
(***************************************************************************)
(* Model of the fly-replay Caddy handler: the path cache (PathCache.Get,   *)
(* Set, Invalidate, Clean, matchesPattern), the response recorder and the  *)
(* request state machine FlyReplay.ServeHTTP.                              *)
(*                                                                         *)
(* Strings are TLA+ strings; Len, \o and SubSeq act on them as on Go       *)
(* strings.  A header that is absent reads as "" (http.Header.Get).        *)
(* Time is a discrete clock `now` in seconds.                              *)
(***************************************************************************)
EXTENDS Integers, Sequences, FiniteSets, TLC

VARIABLES cfg, cache, now, last, probe, twin, conc

vars == <<cfg, cache, now, last, probe, twin, conc>>

-----------------------------------------------------------------------------
(* Bounds of the model *)

\* the clock stops advancing here
MaxTime == 2

\* strings tried as patterns have at most MaxLen characters, strings tried as
\* paths one more
MaxLen == 3

-----------------------------------------------------------------------------
(* Program constants *)

\* smallest TTL override the handler accepts
MinTTLSecs == 10

\* default TTL set by Provision when none is configured
DefaultCacheTTL == 300

\* http.StatusOK, http.StatusBadGateway
StatusOK == 200
StatusBadGateway == 502

-----------------------------------------------------------------------------
(* strings package *)

Char(s, i) == SubSeq(s, i, i)

HasPrefix(s, p) == Len(p) <= Len(s) /\ SubSeq(s, 1, Len(p)) = p

HasSuffix(s, p) == Len(p) <= Len(s) /\ SubSeq(s, Len(s) - Len(p) + 1, Len(s)) = p

TrimPrefix(s, p) == IF HasPrefix(s, p) THEN SubSeq(s, Len(p) + 1, Len(s)) ELSE s

TrimSuffix(s, p) == IF HasSuffix(s, p) THEN SubSeq(s, 1, Len(s) - Len(p)) ELSE s

Contains(s, c) == \E i \in 1..Len(s) : Char(s, i) = c

\* index of the first occurrence of the one-character separator c, 0 if none
IndexOf(s, c) ==
    IF Contains(s, c)
    THEN CHOOSE i \in 1..Len(s) : Char(s, i) = c /\ \A j \in 1..(i - 1) : Char(s, j) # c
    ELSE 0

RECURSIVE Split(_, _)
Split(s, c) ==
    IF IndexOf(s, c) = 0
    THEN <<s>>
    ELSE <<SubSeq(s, 1, IndexOf(s, c) - 1)>> \o Split(SubSeq(s, IndexOf(s, c) + 1, Len(s)), c)

RECURSIVE TrimLeft(_)
TrimLeft(s) == IF Len(s) > 0 /\ Char(s, 1) = " " THEN TrimLeft(SubSeq(s, 2, Len(s))) ELSE s

RECURSIVE TrimRight(_)
TrimRight(s) == IF Len(s) > 0 /\ Char(s, Len(s)) = " " THEN TrimRight(SubSeq(s, 1, Len(s) - 1)) ELSE s

TrimSpace(s) == TrimRight(TrimLeft(s))

-----------------------------------------------------------------------------
(* strconv.Atoi *)

Digits == {"0", "1", "2", "3", "4", "5", "6", "7", "8", "9"}

DigitVal(c) ==
    CASE c = "0" -> 0 [] c = "1" -> 1 [] c = "2" -> 2 [] c = "3" -> 3 [] c = "4" -> 4
      [] c = "5" -> 5 [] c = "6" -> 6 [] c = "7" -> 7 [] c = "8" -> 8 [] c = "9" -> 9

RECURSIVE DecVal(_)
DecVal(s) == IF Len(s) = 0 THEN 0 ELSE 10 * DecVal(SubSeq(s, 1, Len(s) - 1)) + DigitVal(Char(s, Len(s)))

AllDigits(s) == Len(s) > 0 /\ \A i \in 1..Len(s) : Char(s, i) \in Digits

\* [ok, val]: ok is "err == nil"
Atoi(s) ==
    IF Len(s) > 0 /\ Char(s, 1) \in {"+", "-"}
    THEN IF AllDigits(SubSeq(s, 2, Len(s)))
         THEN [ok |-> TRUE,
               val |-> IF Char(s, 1) = "-" THEN 0 - DecVal(SubSeq(s, 2, Len(s)))
                                           ELSE DecVal(SubSeq(s, 2, Len(s)))]
         ELSE [ok |-> FALSE, val |-> 0]
    ELSE IF AllDigits(s) THEN [ok |-> TRUE, val |-> DecVal(s)]
                         ELSE [ok |-> FALSE, val |-> 0]

-----------------------------------------------------------------------------
(* cache.go *)

\* faulty variant: no prefix rule, only the exact and the two-piece rule
matchesPatternTwoPieces(path, pattern) ==
    \/ path = pattern
    \/ /\ Contains(pattern, "*")
       /\ Len(Split(pattern, "*")) = 2
       /\ HasPrefix(path, Split(pattern, "*")[1])
       /\ HasSuffix(path, Split(pattern, "*")[2])

\* faulty variant: the two pieces must fit into the path side by side
matchesPatternNoOverlap(path, pattern) ==
    \/ path = pattern
    \/ /\ Contains(pattern, "*")
       /\ \/ HasPrefix(path, TrimSuffix(pattern, "*"))
          \/ /\ Len(Split(pattern, "*")) = 2
             /\ Len(path) >= Len(Split(pattern, "*")[1]) + Len(Split(pattern, "*")[2])
             /\ HasPrefix(path, Split(pattern, "*")[1])
             /\ HasSuffix(path, Split(pattern, "*")[2])

matchesPattern(path, pattern) ==
    \/ path = pattern
    \/ /\ Contains(pattern, "*")
       /\ \/ HasPrefix(path, TrimSuffix(pattern, "*"))
          \/ /\ Len(Split(pattern, "*")) = 2
             /\ HasPrefix(path, Split(pattern, "*")[1])
             /\ HasSuffix(path, Split(pattern, "*")[2])

\* faulty variant: an entry is still served at the instant it expires
LiveInclusive(entry, t) == t <= entry.ExpiresAt

\* time.Now().Before(entry.ExpiresAt)
Live(entry, t) == t < entry.ExpiresAt

\* faulty variant: only the key equal to the path is looked up, no pattern scan
GetExactOnly(store, fullPath, t) ==
    IF fullPath \in DOMAIN store /\ t < store[fullPath].ExpiresAt
    THEN {store[fullPath]}
    ELSE {}

\* faulty variant: an expired entry under the key fullPath ends the lookup
GetExactDecides(store, fullPath, t) ==
    IF fullPath \in DOMAIN store
    THEN IF t < store[fullPath].ExpiresAt THEN {store[fullPath]} ELSE {}
    ELSE {store[k] : k \in {p \in DOMAIN store : matchesPattern(fullPath, p)
                                                  /\ t < store[p].ExpiresAt}}

\* The entries PathCache.Get may return for fullPath at instant t: the entry
\* under the key fullPath when it is live, else any live entry whose key
\* matches (map iteration order is unspecified).  Empty set: not found.
Get(store, fullPath, t) ==
    IF fullPath \in DOMAIN store /\ Live(store[fullPath], t)
    THEN {store[fullPath]}
    ELSE {store[k] : k \in {p \in DOMAIN store : matchesPattern(fullPath, p) /\ Live(store[p], t)}}

\* faulty variant: a bypass permission granted earlier under the key is kept
SetKeepsBypass(store, path, pattern, target, ttl, allowBypass, t) ==
    [k \in DOMAIN store \cup {pattern} |->
        IF k = pattern
        THEN [Path |-> path, Target |-> target, Pattern |-> pattern,
              AllowBypass |-> allowBypass
                              \/ (pattern \in DOMAIN store /\ store[pattern].AllowBypass),
              ExpiresAt |-> t + ttl]
        ELSE store[k]]

\* faulty variant: storing under a key already present extends its lifetime
SetExtends(store, path, pattern, target, ttl, allowBypass, t) ==
    [k \in DOMAIN store \cup {pattern} |->
        IF k = pattern
        THEN [Path |-> path, Target |-> target, Pattern |-> pattern,
              AllowBypass |-> allowBypass,
              ExpiresAt |-> IF pattern \in DOMAIN store
                            THEN store[pattern].ExpiresAt + ttl ELSE t + ttl]
        ELSE store[k]]

\* faulty variant: an entry already under the key is kept, the first store wins
SetIfAbsent(store, path, pattern, target, ttl, allowBypass, t) ==
    [k \in DOMAIN store \cup {pattern} |->
        IF k = pattern /\ pattern \notin DOMAIN store
        THEN [Path |-> path, Target |-> target, Pattern |-> pattern,
              AllowBypass |-> allowBypass, ExpiresAt |-> t + ttl]
        ELSE store[k]]

Set(store, path, pattern, target, ttl, allowBypass, t) ==
    [k \in DOMAIN store \cup {pattern} |->
        IF k = pattern
        THEN [Path |-> path, Target |-> target, Pattern |-> pattern,
              AllowBypass |-> allowBypass, ExpiresAt |-> t + ttl]
        ELSE store[k]]

\* faulty variant: every entry whose key matches the given string is removed
InvalidateMatching(store, pattern) ==
    [k \in {p \in DOMAIN store : ~matchesPattern(pattern, p)} |-> store[k]]

Invalidate(store, pattern) == [k \in DOMAIN store \ {pattern} |-> store[k]]

\* now.After(entry.ExpiresAt)
CleanStore(store, t) == [k \in {p \in DOMAIN store : ~(t > store[p].ExpiresAt)} |-> store[k]]

-----------------------------------------------------------------------------
(* Configuration (immutable after Provision) *)

\* f.Apps: application name -> AppConfig.Domain.  "m" has a domain that
\* url.Parse rejects.
Apps == [b |-> "b:1", c |-> "https://c", m |-> "m d"]

IsApp(name) == name \in DOMAIN Apps

\* Provision: a zero CacheTTL becomes the default
Provision(enable, ttl, debug) ==
    [EnableCache |-> enable,
     CacheTTL |-> IF ttl = 0 THEN DefaultCacheTTL ELSE ttl,
     Debug |-> debug]

\* the configurations explored: caching on with a short TTL, caching on with
\* the default TTL and debug headers, caching off
Configs == {Provision(TRUE, 1, FALSE), Provision(TRUE, 0, TRUE), Provision(FALSE, 0, TRUE)}

-----------------------------------------------------------------------------
(* Inputs *)

\* Request bodies.  r.Body is nil, or a stream: bytes is what it yields when
\* read from the start to the end, pos how much of it has been read, failAt
\* the offset at which Read returns an error other than EOF (NoFail: never).
NoFail == -1
NilBody == [nil |-> TRUE, bytes |-> "", pos |-> 0, failAt |-> NoFail]
BodyOf(bytes) == [nil |-> FALSE, bytes |-> bytes, pos |-> 0, failAt |-> NoFail]
FailingBody(bytes, k) == [nil |-> FALSE, bytes |-> bytes, pos |-> 0, failAt |-> k]

\* where reading the stream stops: at EOF or at the failing offset
ReadEnd(body) == IF body.failAt = NoFail THEN Len(body.bytes) ELSE body.failAt

\* bodyBytes, _ = io.ReadAll(r.Body): the bytes read until EOF or until the
\* first error, which is dropped; bodyBytes stays nil when r.Body is nil
ReadAll(body) ==
    [nil |-> body.nil,
     bytes |-> IF body.nil THEN "" ELSE SubSeq(body.bytes, body.pos + 1, ReadEnd(body))]

\* the stream after io.ReadAll and Close
Drained(body) == IF body.nil THEN body ELSE [body EXCEPT !.pos = ReadEnd(body)]

\* io.NopCloser(bytes.NewBuffer(b))
NewBuffer(b) == BodyOf(b)

\* if bodyBytes != nil { r.Body = io.NopCloser(bytes.NewBuffer(bodyBytes)) }
RestoreBody(r, bodyBytes) ==
    IF bodyBytes.nil THEN r ELSE [r EXCEPT !.Body = NewBuffer(bodyBytes.bytes)]

\* the stream after a reader took up to n bytes of it
Consumed(body, n) ==
    IF body.nil THEN body
    ELSE [body EXCEPT !.pos = IF @ + n > ReadEnd(body) THEN ReadEnd(body) ELSE @ + n]

Hosts == {"h"}
Paths == {"/ab", "/b"}

\* http.Header.Get: the first value, "" when there is none
HeaderGet(values) == IF Len(values) = 0 THEN "" ELSE values[1]

\* http.Header.Set: exactly one value
HeaderSet(v) == <<v>>

\* inbound requests: header fields hold the list of values the client sent
Requests ==
    {[Host |-> "h", Path |-> "/ab", Control |-> <<>>, Status |-> <<>>, Trace |-> <<>>,
      Body |-> NilBody],
     [Host |-> "h", Path |-> "/b", Control |-> <<>>, Status |-> <<>>, Trace |-> <<>>,
      Body |-> FailingBody("xy", 1)]}
    \cup
    [Host : Hosts, Path : Paths, Control : {<<>>, <<"skip">>}, Status : {<<"hit", "x">>},
     Trace : {<<"c", "d">>}, Body : {BodyOf("xy")}]

\* what the authority delegate does: err # "" is the error it returns; code = 0
\* means it never called WriteHeader; delay is the time it takes; the other
\* fields are the headers it puts on its response ("" is absent); read is how
\* many bytes of the request body it takes (none unless said otherwise)
AuthResponse(err, code, body, delay, replay, cch, ttl, bypass, trace) ==
    [err |-> err, code |-> code, body |-> body, delay |-> delay, replay |-> replay,
     cache |-> cch, ttl |-> ttl, bypass |-> bypass, trace |-> trace, read |-> 0]

\* the same behaviour by a delegate that reads n bytes of the request body
Reading(a, n) == [a EXCEPT !.read = n]

\* no fly-replay header
DirectResponses ==
    {AuthResponse("", c, bd, 0, "", "", "", "", "") : c \in {0, 404}, bd \in {"", "np"}}
    \cup {AuthResponse("", 0, "np", 0, "", "/a*", "10", "yes", "t")}

\* the delegate returns an error, after writing or not
ErrorResponses ==
    {AuthResponse("boom", 0, "", 0, "", "", "", "", ""),
     AuthResponse("boom", 0, "r", 0, "app=b", "/a*", "", "", ""),
     AuthResponse("boom", 0, "r", 0, "app=b", "invalidate", "", "", "")}

\* fly-replay without a cache instruction
ReplayResponses ==
    {Reading(AuthResponse("", 0, "r", 0, rp, "", "", "", ""), 2) :
        rp \in {"app=b", "i=1; app=c", "app=m", "app=g", "i=1"}}
    \cup {Reading(AuthResponse("", 0, "r", 0, "app=b", "", "10", "yes", "t"), 1)}

\* fly-replay with a pattern to store
StoreResponses ==
    {AuthResponse("", 0, "r", 0, "app=b", pt, "", bp, "") : pt \in {"/a*", "/ab"}, bp \in {"", "yes"}}
    \cup {AuthResponse("", 0, "r", 0, "app=b", "/a*", tt, "", "") : tt \in {"5", "10", "1x"}}
    \cup {AuthResponse("", 0, "r", 1, "app=b", "/a*", "", "", ""),
          AuthResponse("", 0, "r", 0, "i=1; app=c", "/*b", "", "", ""),
          AuthResponse("", 0, "r", 0, "app=g", "/ab", "", "", "")}

\* fly-replay with the invalidate instruction
InvalidateResponses ==
    {AuthResponse("", 0, "r", 0, "app=b", "invalidate", "", "", ""),
     AuthResponse("", 0, "r", 0, "app=g", "invalidate", "", "", "")}

\* The authority's possible behaviours for request r: it issues cache
\* instructions only for the paths it routes (test/platform.go derives the
\* pattern from the request path).
AuthResponses(r) ==
    DirectResponses \cup ErrorResponses \cup ReplayResponses
    \cup (IF r.Path = "/ab" THEN StoreResponses \cup InvalidateResponses ELSE {})

-----------------------------------------------------------------------------
(* handler.go *)

\* NewResponseRecorder, then the Header/WriteHeader/Write calls of the delegate
Recorder(a) ==
    [statusCode |-> IF a.code = 0 THEN StatusOK ELSE a.code,
     header |-> [replay |-> a.replay, cache |-> a.cache, ttl |-> a.ttl,
                 bypass |-> a.bypass, trace |-> a.trace],
     body |-> a.body]

RECURSIVE FirstApp(_)
FirstApp(parts) ==
    IF Len(parts) = 0 THEN ""
    ELSE IF HasPrefix(TrimSpace(Head(parts)), "app=")
         THEN TrimPrefix(TrimSpace(Head(parts)), "app=")
         ELSE FirstApp(Tail(parts))

parseAppName(header) == FirstApp(Split(header, ";"))

\* faulty variant: any integer override is accepted, no 10-second floor
ResolveTTLNoFloor(ttlHeader) ==
    IF ttlHeader # "" /\ Atoi(ttlHeader).ok THEN Atoi(ttlHeader).val ELSE cfg.CacheTTL

\* the TTL the handler stores with
ResolveTTL(ttlHeader) ==
    IF ttlHeader # "" /\ Atoi(ttlHeader).ok /\ Atoi(ttlHeader).val >= MinTTLSecs
    THEN Atoi(ttlHeader).val
    ELSE cfg.CacheTTL

ResolveBypass(bypassHeader) == bypassHeader = "yes"

\* net/url.Parse on the normalised address: fails on a space in the host
URLParseOK(u) == ~Contains(u, " ")

NormalizeDomain(d) ==
    IF ~HasPrefix(d, "http://") /\ ~HasPrefix(d, "https://") THEN "http://" \o d ELSE d

\* the client's ResponseWriter before the handler touched it
NoDebug == [XCachedApp |-> "", XCacheAction |-> "", XCachePattern |-> "",
            XCacheAllowBypass |-> "", XForwardedTo |-> ""]
NoHeader == [replay |-> "", cache |-> "", ttl |-> "", bypass |-> "", trace |-> ""]
\* wrote lists, in order, who sent a response through it: "recorded" (the
\* flushed recorder), "error" (http.Error) or "backend" (the relay)
FreshWriter ==
    [debug |-> NoDebug, header |-> NoHeader, status |-> 0, body |-> "", wrote |-> <<>>]

\* faulty variant: with debug on the target is reported but the request is
\* not relayed
forwardToAppDebugOnly(w, r, targetDomain) ==
    IF ~URLParseOK(NormalizeDomain(targetDomain))
    THEN [state |-> "Forwarded", err |-> "invalid target domain", w |-> w,
          fwd |-> <<[domain |-> targetDomain, req |-> r]>>, relayed |-> FALSE]
    ELSE IF cfg.Debug
    THEN [state |-> "Forwarded", err |-> "",
          w |-> [w EXCEPT !.debug.XForwardedTo = NormalizeDomain(targetDomain)],
          fwd |-> <<[domain |-> targetDomain, req |-> r]>>, relayed |-> FALSE]
    ELSE [state |-> "Forwarded", err |-> "",
          w |-> [w EXCEPT !.wrote = Append(@, "backend")],
          fwd |-> <<[domain |-> targetDomain, req |-> r]>>, relayed |-> TRUE]

\* forwardToApp(w, r, targetDomain): the terminal part of a forwarding request
forwardToApp(w, r, targetDomain) ==
    IF ~URLParseOK(NormalizeDomain(targetDomain))
    THEN [state |-> "Forwarded", err |-> "invalid target domain", w |-> w,
          fwd |-> <<[domain |-> targetDomain, req |-> r]>>, relayed |-> FALSE]
    ELSE [state |-> "Forwarded", err |-> "",
          w |-> IF cfg.Debug
                THEN [w EXCEPT !.debug.XForwardedTo = NormalizeDomain(targetDomain),
                               !.wrote = Append(@, "backend")]
                ELSE [w EXCEPT !.wrote = Append(@, "backend")],
          fwd |-> <<[domain |-> targetDomain, req |-> r]>>, relayed |-> TRUE]

\* ResponseRecorder.WriteResponse
WriteResponse(w, rec) ==
    [w EXCEPT !.header = rec.header, !.status = rec.statusCode, !.body = rec.body,
              !.wrote = Append(@, "recorded")]

\* faulty variant: an unknown app is returned as an error, nothing written
UnknownAppAsError(w, appName) ==
    [state |-> "BadGateway", err |-> "unknown app: " \o appName, w |-> w,
     fwd |-> <<>>, relayed |-> FALSE]

\* The fly-replay target is not configured:
\* http.Error(w, "Bad Gateway: unknown app '<name>'", http.StatusBadGateway); return nil
UnknownApp(w, appName) ==
    [state |-> "BadGateway", err |-> "",
     w |-> [w EXCEPT !.status = StatusBadGateway,
                     !.body = "Bad Gateway: unknown app '" \o appName \o "'",
                     !.wrote = Append(@, "error")],
     fwd |-> <<>>, relayed |-> FALSE]

\* No fly-replay header: return rec.WriteResponse()
DirectResponse(w, rec) ==
    [state |-> "DirectResponse", err |-> "", w |-> WriteResponse(w, rec),
     fwd |-> <<>>, relayed |-> FALSE]

-----------------------------------------------------------------------------
(* FlyReplay.ServeHTTP *)

\* faulty variant: skip is honoured whether or not the entry allows it
BypassOnSkip(entry, r) == HeaderGet(r.Control) = "skip"

\* the client asks to skip an entry that allows it
BypassRequested(entry, r) == entry.AllowBypass /\ HeaderGet(r.Control) = "skip"

\* faulty variant: a replayed request is always marked miss
ReplayStatusMiss(cacheStatus) == "miss"

\* faulty variant: the local cacheStatus is sent as it is
ReplayStatusVerbatim(cacheStatus) == cacheStatus

\* the fly-replay-cache-status value set after a replay, from the local cacheStatus
ReplayStatus(cacheStatus) == IF cacheStatus = "bypass" THEN "bypass" ELSE "miss"

\* faulty variant: without a fly-replay-cache header the request's own path is cached
CacheInstructionDefaultsToPath(store, r, rec, t) ==
    IF cfg.EnableCache
    THEN IF rec.header.cache = "invalidate"
         THEN Invalidate(store, r.Host \o r.Path)
         ELSE Set(store, r.Host \o r.Path,
                  r.Host \o (IF rec.header.cache = "" THEN r.Path ELSE rec.header.cache),
                  parseAppName(rec.header.replay), ResolveTTL(rec.header.ttl),
                  ResolveBypass(rec.header.bypass), t)
    ELSE store

\* faulty variant: the instruction is executed whether caching is on or off
CacheInstructionAlways(store, r, rec, t) ==
    IF rec.header.cache # ""
    THEN IF rec.header.cache = "invalidate"
         THEN Invalidate(store, r.Host \o r.Path)
         ELSE Set(store, r.Host \o r.Path, r.Host \o rec.header.cache,
                  parseAppName(rec.header.replay), ResolveTTL(rec.header.ttl),
                  ResolveBypass(rec.header.bypass), t)
    ELSE store

\* Step 3 on a response that carries fly-replay: the cache instruction,
\* executed at instant t
CacheInstruction(store, r, rec, t) ==
    IF cfg.EnableCache /\ rec.header.cache # ""
    THEN IF rec.header.cache = "invalidate"
         THEN Invalidate(store, r.Host \o r.Path)
         ELSE Set(store, r.Host \o r.Path, r.Host \o rec.header.cache,
                  parseAppName(rec.header.replay), ResolveTTL(rec.header.ttl),
                  ResolveBypass(rec.header.bypass), t)
    ELSE store

\* the debug headers the cache instruction leaves on the client's writer
CacheInstructionDebug(w, r, rec) ==
    IF cfg.EnableCache /\ rec.header.cache # "" /\ cfg.Debug
    THEN IF rec.header.cache = "invalidate"
         THEN [w EXCEPT !.debug.XCacheAction = "INVALIDATED"]
         ELSE [w EXCEPT !.debug.XCacheAction = "STORED",
                        !.debug.XCachePattern = r.Host \o rec.header.cache,
                        !.debug.XCacheAllowBypass =
                            IF ResolveBypass(rec.header.bypass) THEN "yes" ELSE ""]
    ELSE w

\* faulty variant: the recorded headers are acted on before the error is looked at
DelegateFailedAfterInstruction(w, r, rec, err) ==
    [state |-> "DelegateError", err |-> err, w |-> w, fwd |-> <<>>, relayed |-> FALSE,
     store |-> IF rec.header.replay # "" THEN CacheInstruction(cache, r, rec, now) ELSE cache]

\* next.ServeHTTP returned err: return err
DelegateFailed(w, r, rec, err) ==
    [state |-> "DelegateError", err |-> err, w |-> w, fwd |-> <<>>, relayed |-> FALSE,
     store |-> cache]

\* faulty variant: the authority's trace id is added after the client's values
ReplayRequestAddsTrace(r, rec, cacheStatus, bodyBytes) ==
    [RestoreBody(r, bodyBytes) EXCEPT
        !.Trace = IF rec.header.trace # "" THEN Append(@, rec.header.trace) ELSE @,
        !.Status = HeaderSet(ReplayStatus(cacheStatus))]

\* the request handed to the backend after a replay: trace id, body restored
\* from bodyBytes, cache status
ReplayRequest(r, rec, cacheStatus, bodyBytes) ==
    [RestoreBody(r, bodyBytes) EXCEPT
        !.Trace = IF rec.header.trace # "" THEN HeaderSet(rec.header.trace) ELSE @,
        !.Status = HeaderSet(ReplayStatus(cacheStatus))]

\* faulty variant: the recorded response is flushed to the client as soon as
\* the delegate returns, whatever it holds
DelegateFlushesAlways(w, r, a, cacheStatus, bodyBytes) ==
    LET rec == Recorder(a)
        appName == parseAppName(rec.header.replay)
        after == [r EXCEPT !.Body = Consumed(@, a.read)]
        flushed == WriteResponse(w, rec)
    IN  IF a.err # ""
        THEN DelegateFailed(flushed, r, rec, a.err)
        ELSE IF rec.header.replay # ""
        THEN [store |-> CacheInstruction(cache, r, rec, now + a.delay)]
             @@ (IF IsApp(appName)
                 THEN forwardToApp(CacheInstructionDebug(flushed, r, rec),
                                   ReplayRequest(after, rec, cacheStatus, bodyBytes),
                                   Apps[appName])
                 ELSE UnknownApp(CacheInstructionDebug(flushed, r, rec), appName))
        ELSE [store |-> cache] @@ [DirectResponse(w, rec) EXCEPT !.w = flushed]

\* Steps 2 and 3: delegate to the authority with request r, then act on the
\* recorded response.  cacheStatus and bodyBytes are the handler's locals of
\* those names; the delegate leaves r.Body read as far as it went.
Delegate(w, r, a, cacheStatus, bodyBytes) ==
    LET rec == Recorder(a)
        appName == parseAppName(rec.header.replay)
        after == [r EXCEPT !.Body = Consumed(@, a.read)]
    IN  IF a.err # ""
        THEN DelegateFailed(w, r, rec, a.err)
        ELSE IF rec.header.replay # ""
        THEN [store |-> CacheInstruction(cache, r, rec, now + a.delay)]
             @@ (IF IsApp(appName)
                 THEN forwardToApp(CacheInstructionDebug(w, r, rec),
                                   ReplayRequest(after, rec, cacheStatus, bodyBytes),
                                   Apps[appName])
                 ELSE UnknownApp(CacheInstructionDebug(w, r, rec), appName))
        ELSE [store |-> cache] @@ DirectResponse(w, rec)

\* One request, start to finish.  r is the inbound request, a what the
\* authority does if it is asked, cached the result of f.cache.Get (<<>> when
\* nothing is found or caching is off).
Handle(r, a, cached) ==
    LET bodyBytes == ReadAll(r.Body)
        drained == [r EXCEPT !.Body = Drained(@)]
        hitReq == [RestoreBody(drained, bodyBytes) EXCEPT !.Status = HeaderSet("hit")]
        platReq == RestoreBody(drained, bodyBytes)
        hitW == IF cfg.Debug
                THEN [FreshWriter EXCEPT !.debug.XCachedApp = cached[1].Target]
                ELSE FreshWriter
    IN  IF cached # <<>> /\ ~BypassRequested(cached[1], r)
        THEN IF IsApp(cached[1].Target)
             THEN [store |-> cache, platform |-> <<>>]
                  @@ forwardToApp(hitW, hitReq, Apps[cached[1].Target])
             ELSE [platform |-> <<[req |-> hitReq, did |-> a]>>]
                  @@ Delegate(hitW, hitReq, a, "hit", bodyBytes)
        ELSE [platform |-> <<[req |-> platReq, did |-> a]>>]
             @@ Delegate(FreshWriter, platReq, a,
                         IF cached # <<>> THEN "bypass" ELSE "", bodyBytes)

\* no direct call of a cache operation is being observed
NoProbe ==
    [op |-> "none", path |-> "", pattern |-> "", target |-> "", ttl |-> 0,
     allowBypass |-> FALSE, matched |-> FALSE, once |-> <<>>]

\* no second handler is being compared with the first
NoTwin == [phase |-> "off", req |-> <<>>, did |-> <<>>, cached |-> <<>>,
           first |-> <<>>, second |-> <<>>]

\* no requests are running concurrently
NoConc == [phase |-> "off"]

\* no request is being observed
NoRequest ==
    [req |-> [Host |-> "", Path |-> "", Control |-> <<>>, Status |-> <<>>,
              Trace |-> <<>>, Body |-> NilBody],
     at |-> 0, before |-> <<>>, cached |-> <<>>, platform |-> <<>>,
     state |-> "none", err |-> "", w |-> FreshWriter, fwd |-> <<>>, relayed |-> FALSE]

\* what f.cache.Get may return to the handler, as <<entry>> or <<>>
Lookups(r) ==
    IF cfg.EnableCache /\ Get(cache, r.Host \o r.Path, now) # {}
    THEN {<<e>> : e \in Get(cache, r.Host \o r.Path, now)}
    ELSE {<<>>}

\* A request arrives and is handled to its end.  `last` keeps what an observer
\* sees of it: the request, the instant and cache at the lookup, the entry
\* found, the call to the authority, the terminal state, the error returned,
\* the client's writer and the call to the forwarding proxy.
ServeHTTP(r, a) ==
    /\ last = NoRequest
    /\ now + a.delay <= MaxTime
    /\ \E cached \in Lookups(r) :
         LET res == Handle(r, a, cached)
         IN  /\ cache' = res.store
             /\ now' = IF res.platform # <<>> THEN now + a.delay ELSE now
             /\ last' = [req |-> r, at |-> now, before |-> cache, cached |-> cached,
                         platform |-> res.platform, state |-> res.state, err |-> res.err,
                         w |-> res.w, fwd |-> res.fwd, relayed |-> res.relayed]
    /\ UNCHANGED <<cfg, probe, twin, conc>>

\* The handler has returned: its request, recorder and writer are gone.
\* Requests are taken one at a time; the clock and the sweep run in between.
Finish ==
    /\ last # NoRequest
    /\ last' = NoRequest
    /\ UNCHANGED <<cfg, cache, now, probe, twin, conc>>

\* PathCache.Clean, run by a periodic scheduler
Clean ==
    /\ last = NoRequest
    /\ cfg.EnableCache
    /\ cache' = CleanStore(cache, now)
    /\ UNCHANGED <<cfg, now, last, probe, twin, conc>>

\* time passes
Tick ==
    /\ last = NoRequest
    /\ now < MaxTime
    /\ now' = now + 1
    /\ UNCHANGED <<cfg, cache, last, probe, twin, conc>>

Init ==
    /\ cfg \in Configs
    /\ cache = <<>>
    /\ now = 0
    /\ last = NoRequest
    /\ probe = NoProbe
    /\ twin = NoTwin
    /\ conc = NoConc

Next ==
    \/ \E r \in Requests : \E a \in AuthResponses(r) : ServeHTTP(r, a)
    \/ Finish
    \/ Clean
    \/ Tick

Spec == Init /\ [][Next]_vars

-----------------------------------------------------------------------------
(* The cache's functions called directly, on inputs drawn from bounded sets *)

\* the characters of the strings tried: two letters and the wildcard marker
Alphabet == {"a", "b", "*"}

\* all strings over Alphabet of length at most n
RECURSIVE Strs(_)
Strs(n) ==
    IF n = 0 THEN {""}
    ELSE Strs(n - 1) \cup {s \o c : s \in Strs(n - 1), c \in Alphabet}

\* matchesPattern is about to be called with path and pattern
MatchProbes ==
    {[NoProbe EXCEPT !.op = "match", !.path = x, !.pattern = p] :
        x \in Strs(MaxLen + 1), p \in Strs(MaxLen)}

ProbeKeys == {"h/a*", "h/ab"}

\* the caches Set is called on: empty, or holding what an earlier Set left
ProbeStores ==
    {<<>>}
    \cup {Set(<<>>, "h/ab", k, tg, DefaultCacheTTL, bp, 0) :
             k \in ProbeKeys, tg \in {"b", "c"}, bp \in BOOLEAN}
    \cup {Set(Set(<<>>, "h/ab", "h/a*", "c", MinTTLSecs, TRUE, 0),
               "h/ab", "h/ab", "c", MinTTLSecs, TRUE, 0)}

\* Set is about to be called with these arguments
SetProbes ==
    {[NoProbe EXCEPT !.op = "set", !.path = "h/ab", !.pattern = k, !.target = tg,
                     !.ttl = tt, !.allowBypass = bp] :
        k \in ProbeKeys, tg \in {"b", "g"}, tt \in {MinTTLSecs, DefaultCacheTTL},
        bp \in BOOLEAN}

\* matchesPattern(path, pattern) is called
Match ==
    /\ probe.op = "match"
    /\ probe' = [probe EXCEPT !.op = "matched",
                              !.matched = matchesPattern(probe.path, probe.pattern)]
    /\ UNCHANGED <<cfg, cache, now, last, twin, conc>>

\* c.Set(path, pattern, target, ttl, allowBypass) is called
SetOnce ==
    /\ probe.op = "set"
    /\ cache' = Set(cache, probe.path, probe.pattern, probe.target, probe.ttl,
                    probe.allowBypass, now)
    /\ probe' = [probe EXCEPT !.op = "set1", !.once = cache']
    /\ UNCHANGED <<cfg, now, last, twin, conc>>

\* the same call is made again at the same instant
SetAgain ==
    /\ probe.op = "set1"
    /\ cache' = Set(cache, probe.path, probe.pattern, probe.target, probe.ttl,
                    probe.allowBypass, now)
    /\ probe' = [probe EXCEPT !.op = "set2"]
    /\ UNCHANGED <<cfg, now, last, twin, conc>>

InitPure ==
    /\ cfg = Provision(TRUE, 0, FALSE)
    /\ last = NoRequest
    /\ twin = NoTwin
    /\ conc = NoConc
    /\ \/ now = 0 /\ cache = <<>> /\ probe \in MatchProbes
       \/ now \in 0 .. MaxTime /\ cache \in ProbeStores /\ probe \in SetProbes

NextPure ==
    \/ Match
    \/ SetOnce
    \/ SetAgain

SpecPure == InitPure /\ [][NextPure]_vars

-----------------------------------------------------------------------------
(* Two handlers that differ only in the debug flag, given the same request,
   the same answer of the authority, the same cache and the same instant *)

\* the caches the two handlers start from: what earlier requests can leave,
\* an entry for an unconfigured application and an expiring entry included
TwinStores ==
    ProbeStores
    \cup {Set(<<>>, "h/ab", "h/ab", "g", 1, FALSE, 0),
          Set(Set(<<>>, "h/ab", "h/a*", "b", 1, TRUE, 0),
              "h/ab", "h/*b", "c", MinTTLSecs, FALSE, 0)}

\* The first handler takes request r, the authority answering with a.  What
\* it does is kept in twin.first; the cache and the clock are left as they
\* were for the second handler, whose debug flag is the other one.
TwinFirst(r, a) ==
    /\ twin.phase = "first"
    /\ now + a.delay <= MaxTime
    /\ \E cached \in Lookups(r) :
         twin' = [twin EXCEPT !.phase = "second", !.req = <<r>>, !.did = <<a>>,
                              !.cached = cached, !.first = <<Handle(r, a, cached)>>]
    /\ cfg' = [cfg EXCEPT !.Debug = ~@]
    /\ UNCHANGED <<cache, now, last, probe, conc>>

\* The second handler takes the same request with the same answer of the
\* authority and the same result of the lookup.
TwinSecond ==
    /\ twin.phase = "second"
    /\ LET r == twin.req[1]
           a == twin.did[1]
           res == Handle(r, a, twin.cached)
       IN  /\ twin' = [twin EXCEPT !.phase = "done", !.second = <<res>>]
           /\ cache' = res.store
           /\ now' = IF res.platform # <<>> THEN now + a.delay ELSE now
           /\ last' = [req |-> r, at |-> now, before |-> cache, cached |-> twin.cached,
                       platform |-> res.platform, state |-> res.state, err |-> res.err,
                       w |-> res.w, fwd |-> res.fwd, relayed |-> res.relayed]
    /\ UNCHANGED <<cfg, probe, conc>>

InitTwin ==
    /\ cfg \in {Provision(TRUE, 1, FALSE), Provision(FALSE, 0, TRUE)}
    /\ cache \in IF cfg.EnableCache THEN TwinStores ELSE {<<>>}
    /\ now \in 0 .. MaxTime
    /\ last = NoRequest
    /\ probe = NoProbe
    /\ twin = [NoTwin EXCEPT !.phase = "first"]
    /\ conc = NoConc

NextTwin ==
    \/ \E r \in Requests : \E a \in AuthResponses(r) : TwinFirst(r, a)
    \/ TwinSecond

SpecTwin == InitTwin /\ [][NextTwin]_vars

-----------------------------------------------------------------------------
(* Requests handled concurrently, one goroutine each, and the sweeper.  The
   handler's steps are taken one at a time; the cache's functions are entered
   and left under c.mu. *)

\* the request goroutines
Procs == {1, 2}

\* the goroutine that calls Clean
Sweeper == 0

\* faulty variant: every cache function takes the read lock
LockOfAllShared(op) == "R"

\* the lock each cache function takes: RLock in Get, Lock in the others
LockOf(op) == IF op = "Get" THEN "R" ELSE "W"

\* sync.RWMutex: a reader enters unless a writer is inside, a writer enters
\* only when nobody is inside
CanLock(mu, kind) ==
    IF kind = "R" THEN mu.writer = {} ELSE mu.writer = {} /\ mu.readers = {}

\* RLock / Lock by goroutine p
Locked(mu, kind, p) ==
    IF kind = "R" THEN [mu EXCEPT !.readers = @ \cup {p}]
                  ELSE [mu EXCEPT !.writer = @ \cup {p}]

\* faulty variant: the deferred RUnlock is missing, only writers release
UnlockWriterOnly(mu, p) == [mu EXCEPT !.writer = @ \ {p}]

\* defer c.mu.RUnlock() / defer c.mu.Unlock()
Unlock(mu, p) == [readers |-> mu.readers \ {p}, writer |-> mu.writer \ {p}]

\* the requests that race: the same host and path, with and without skip
ConcRequests == {r \in Requests : r.Path = "/ab" /\ ~r.Body.nil}

\* what the authority may answer to them
ConcResponses ==
    {AuthResponse("", 0, "r", 0, "app=b", "/a*", "", "yes", ""),
     AuthResponse("", 0, "r", 0, "i=1; app=c", "/a*", "", "", ""),
     AuthResponse("", 0, "r", 0, "app=g", "invalidate", "", "", ""),
     AuthResponse("", 0, "r", 0, "app=b", "", "", "", ""),
     AuthResponse("", 404, "np", 0, "", "", "", "", ""),
     AuthResponse("boom", 0, "", 0, "", "", "", "", "")}

\* the locals of a handler that has not started
NoLocal ==
    [req |-> NoRequest.req, cached |-> <<>>, cacheStatus |-> "", did |-> <<>>,
     app |-> "", wrote |-> FALSE, steps |-> <<>>, end |-> ""]

\* faulty variant: the request goes on to the backend without waiting for the
\* cache instruction
AfterReplayNoWait(a, appName) ==
    IF IsApp(appName) THEN "forward" ELSE "BadGateway"

\* where the handler goes once the delegate returned a response with
\* fly-replay: to the cache instruction if there is one, else on to the
\* backend or to the 502
AfterReplay(a, appName) ==
    IF cfg.EnableCache /\ a.cache # "" THEN "mutate"
    ELSE IF IsApp(appName) THEN "forward" ELSE "BadGateway"

\* where the handler goes once the cache instruction is carried out
AfterMutate(appName) == IF IsApp(appName) THEN "forward" ELSE "BadGateway"

\* appName := parseAppName(replayHeader), for each response of the authority
ParsedApp == [a \in ConcResponses |-> parseAppName(a.replay)]

\* the program counter for a destination: a step still to take, or the end
PcOf(dest) == IF dest \in {"mutate", "forward"} THEN dest ELSE "done"

\* the terminal state for a destination ("" while the handler is running)
EndOf(dest) == IF dest \in {"mutate", "forward"} THEN "" ELSE dest

\* the cache function a cache instruction calls
InstructionOp(a) == IF a.cache = "invalidate" THEN "Invalidate" ELSE "Set"

\* a request arrives and its handler starts: the body is buffered
Arrive(p, r) ==
    /\ conc.pc[p] = "idle"
    /\ conc' = [conc EXCEPT !.pc[p] = IF cfg.EnableCache THEN "get" ELSE "delegate",
                            !.loc[p].req = r,
                            !.arrived = Append(@, p)]
    /\ UNCHANGED <<cfg, cache, now, last, probe, twin>>

\* f.cache.Get is entered
GetEnter(p) ==
    /\ conc.pc[p] = "get"
    /\ CanLock(conc.mu, LockOf("Get"))
    /\ conc' = [conc EXCEPT !.pc[p] = "inGet",
                            !.mu = Locked(@, LockOf("Get"), p),
                            !.loc[p].steps = Append(@, "lookup")]
    /\ UNCHANGED <<cfg, cache, now, last, probe, twin>>

\* f.cache.Get returns; the handler decides between hit, bypass and miss
GetExit(p) ==
    /\ conc.pc[p] = "inGet"
    /\ \E cached \in Lookups(conc.loc[p].req) :
         LET hit == cached # <<>> /\ ~BypassRequested(cached[1], conc.loc[p].req)
         IN  conc' = [conc EXCEPT
                 !.pc[p] = IF hit /\ IsApp(cached[1].Target) THEN "forward" ELSE "delegate",
                 !.mu = Unlock(@, p),
                 !.loc[p].cached = cached,
                 !.loc[p].cacheStatus = IF cached = <<>> THEN ""
                                        ELSE IF hit THEN "hit" ELSE "bypass"]
    /\ UNCHANGED <<cfg, cache, now, last, probe, twin>>

\* next.ServeHTTP(rec, r) is called
DelegateCall(p) ==
    /\ conc.pc[p] = "delegate"
    /\ conc' = [conc EXCEPT !.pc[p] = "delegating",
                            !.loc[p].steps = Append(@, "delegate")]
    /\ UNCHANGED <<cfg, cache, now, last, probe, twin>>

\* next.ServeHTTP returns, the authority having done a
DelegateReturn(p, a) ==
    /\ conc.pc[p] = "delegating"
    /\ \E appName \in {IF a.err # "" \/ a.replay = "" THEN "" ELSE ParsedApp[a]} :
         \E dest \in {IF a.err # "" THEN "DelegateError"
                       ELSE IF a.replay = "" THEN "DirectResponse"
                       ELSE AfterReplay(a, appName)} :
            conc' = [conc EXCEPT !.pc[p] = PcOf(dest),
                                 !.loc[p].end = EndOf(dest),
                                 !.loc[p].did = <<a>>,
                                 !.loc[p].app = appName]
    /\ UNCHANGED <<cfg, cache, now, last, probe, twin>>

\* f.cache.Set or f.cache.Invalidate is entered
MutateEnter(p) ==
    /\ conc.pc[p] = "mutate"
    /\ CanLock(conc.mu, LockOf(InstructionOp(conc.loc[p].did[1])))
    /\ conc' = [conc EXCEPT !.pc[p] = "inMutate",
                            !.mu = Locked(@, LockOf(InstructionOp(conc.loc[p].did[1])), p),
                            !.loc[p].steps = Append(@, "mutate")]
    /\ UNCHANGED <<cfg, cache, now, last, probe, twin>>

\* f.cache.Set or f.cache.Invalidate changes the map and returns; the
\* handler resolves the application
MutateExit(p) ==
    /\ conc.pc[p] = "inMutate"
    /\ \E a \in {conc.loc[p].did[1]} : \E r \in {conc.loc[p].req} :
         \E appName \in {conc.loc[p].app} :
            /\ cache' = IF a.cache = "invalidate"
                        THEN Invalidate(cache, r.Host \o r.Path)
                        ELSE Set(cache, r.Host \o r.Path, r.Host \o a.cache, appName,
                                 ResolveTTL(a.ttl), ResolveBypass(a.bypass), now)
            /\ conc' = [conc EXCEPT !.pc[p] = PcOf(AfterMutate(appName)),
                                    !.loc[p].end = EndOf(AfterMutate(appName)),
                                    !.loc[p].wrote = TRUE,
                                    !.mu = Unlock(@, p),
                                    !.lastWrite = p]
    /\ UNCHANGED <<cfg, now, last, probe, twin>>

\* forwardToApp hands the request to the backend
ForwardCall(p) ==
    /\ conc.pc[p] = "forward"
    /\ conc' = [conc EXCEPT !.pc[p] = "relaying",
                            !.loc[p].steps = Append(@, "forward")]
    /\ UNCHANGED <<cfg, cache, now, last, probe, twin>>

\* proxy.ServeHTTP returns
ForwardReturn(p) ==
    /\ conc.pc[p] = "relaying"
    /\ conc' = [conc EXCEPT !.pc[p] = "done", !.loc[p].end = "Forwarded"]
    /\ UNCHANGED <<cfg, cache, now, last, probe, twin>>

\* PathCache.Clean is entered
SweepEnter ==
    /\ conc.sweeper = "idle"
    /\ CanLock(conc.mu, LockOf("Clean"))
    /\ conc' = [conc EXCEPT !.sweeper = "inClean",
                            !.mu = Locked(@, LockOf("Clean"), Sweeper)]
    /\ UNCHANGED <<cfg, cache, now, last, probe, twin>>

\* PathCache.Clean deletes and returns
SweepExit ==
    /\ conc.sweeper = "inClean"
    /\ cache' = CleanStore(cache, now)
    /\ conc' = [conc EXCEPT !.sweeper = "idle", !.mu = Unlock(@, Sweeper)]
    /\ UNCHANGED <<cfg, now, last, probe, twin>>

\* a cache that holds one expired entry for another path; nobody is running
InitConc ==
    /\ cfg = Provision(TRUE, 1, FALSE)
    /\ now = MaxTime
    /\ cache = Set(<<>>, "h/b", "h/b", "b", cfg.CacheTTL, FALSE, 0)
    /\ last = NoRequest
    /\ probe = NoProbe
    /\ twin = NoTwin
    /\ conc = [phase |-> "on", pc |-> [p \in Procs |-> "idle"],
               loc |-> [p \in Procs |-> NoLocal], sweeper |-> "idle",
               mu |-> [readers |-> {}, writer |-> {}], lastWrite |-> Sweeper,
               arrived |-> <<>>]

NextConc ==
    \/ \E p \in Procs : \E r \in ConcRequests : Arrive(p, r)
    \/ \E p \in Procs : GetEnter(p)
    \/ \E p \in Procs : GetExit(p)
    \/ \E p \in Procs : DelegateCall(p)
    \/ \E p \in Procs : \E a \in ConcResponses : DelegateReturn(p, a)
    \/ \E p \in Procs : MutateEnter(p)
    \/ \E p \in Procs : MutateExit(p)
    \/ \E p \in Procs : ForwardCall(p)
    \/ \E p \in Procs : ForwardReturn(p)
    \/ SweepEnter
    \/ SweepExit

\* what handler p does on its own once it runs
Step(p) ==
    \/ GetExit(p)
    \/ DelegateCall(p)
    \/ \E a \in ConcResponses : DelegateReturn(p, a)
    \/ MutateExit(p)
    \/ ForwardCall(p)
    \/ ForwardReturn(p)

\* handler p gets c.mu
Enter(p) == GetEnter(p) \/ MutateEnter(p)

\* Every call returns and every runnable goroutine runs; a goroutine waiting
\* for c.mu gets it when it is free again and again (sync.RWMutex hands the
\* lock to waiters).
FairConc ==
    /\ \A p \in Procs : WF_vars(Step(p)) /\ SF_vars(Enter(p))
    /\ WF_vars(SweepExit)

SpecConc == InitConc /\ [][NextConc]_vars /\ FairConc

-----------------------------------------------------------------------------
(* Requests for several hosts served by one handler and one cache: the cache
   key is r.Host + cachePattern, the lookup key r.Host + r.URL.Path. *)

\* the hosts the handler serves
VHosts == {"h", "hh"}

\* the requests of the clients of these hosts
HostRequests ==
    [Host : VHosts, Path : {"/a"}, Control : {<<>>}, Status : {<<>>}, Trace : {<<>>},
     Body : {NilBody}]

\* the values the authority may put in fly-replay-cache: the handler takes
\* any non-empty string other than "invalidate" as a pattern
HostPatterns == {"/a", "/a*", "*", "h/a"}

\* the application the authority routes a host to
HostApp(h) == IF h = "h" THEN "app=b" ELSE "app=c"

\* the authority's answers for request r: a replay to the host's application,
\* with or without a pattern to store
HostResponses(r) ==
    {AuthResponse("", 0, "r", 0, HostApp(r.Host), pt, "", "", "") :
        pt \in HostPatterns \cup {""}}

InitHost ==
    /\ cfg = Provision(TRUE, 1, FALSE)
    /\ cache = <<>>
    /\ now = 0
    /\ last = NoRequest
    /\ probe = NoProbe
    /\ twin = NoTwin
    /\ conc = NoConc

NextHost ==
    \/ \E r \in HostRequests : \E a \in HostResponses(r) : ServeHTTP(r, a)
    \/ Finish

SpecHost == InitHost /\ [][NextHost]_vars

-----------------------------------------------------------------------------
(* What an observer reads off the request just handled *)

Served == last # NoRequest

FullPath == last.req.Host \o last.req.Path

SkipAsked == HeaderGet(last.req.Control) = "skip"

AuthorityInvoked == last.platform # <<>>

\* the authority answered (no error) and its answer carries fly-replay
Replayed ==
    /\ Served
    /\ AuthorityInvoked
    /\ last.platform[1].did.err = ""
    /\ last.platform[1].did.replay # ""

ReplayApp == parseAppName(last.platform[1].did.replay)

\* the authority answered with fly-replay and a pattern to cache, caching on
StoreInstructed ==
    /\ Replayed
    /\ cfg.EnableCache
    /\ last.platform[1].did.cache \notin {"", "invalidate"}

StoreKey == last.req.Host \o last.platform[1].did.cache

\* the request went to the forwarding proxy for app, straight from the cache
ServedFromCache(app) ==
    /\ last.state = "Forwarded"
    /\ last.fwd[1].domain = Apps[app]
    /\ ~AuthorityInvoked
    /\ last.fwd[1].req.Status = <<"hit">>

\* the recorded response reached the client's writer
Flushed == last.w.status # 0 \/ last.w.body # "" \/ last.w.header # NoHeader

\* entry under key k of the cache as it was at the lookup: it matches the
\* request, is unexpired, the request has no permitted bypass of it, and its
\* target is configured
Usable(k) ==
    /\ HasPrefix(k, last.req.Host)
    /\ matchesPattern(FullPath, k)
    /\ last.at < last.before[k].ExpiresAt
    /\ ~(last.before[k].AllowBypass /\ SkipAsked)
    /\ IsApp(last.before[k].Target)

\* no other unexpired entry matches the request
OnlyLiveMatch(k) ==
    \A k2 \in DOMAIN last.before :
        (matchesPattern(FullPath, k2) /\ last.at < last.before[k2].ExpiresAt) => k2 = k

-----------------------------------------------------------------------------
(* Claims *)

\* C1 as stated: once an entry (app A, pattern P) was stored for host H, every
\* later request on H matching H+P before the entry expires, without a
\* permitted bypass and with A configured, is forwarded to A's domain without
\* the authority being invoked, carrying fly-replay-cache-status: hit.
\* Stated here for caches in which every entry names a configured app, so
\* that a failure does not rest on an entry that cannot be forwarded.
C1_AsStated ==
    (Served /\ cfg.EnableCache
            /\ \A k2 \in DOMAIN last.before : IsApp(last.before[k2].Target)) =>
        \A k \in DOMAIN last.before :
            Usable(k) => ServedFromCache(last.before[k].Target)

\* C1 amended: the same, when the entry is stored under the key equal to the
\* request's host+path or is the only unexpired entry matching it.
C1_CachedRouteServed ==
    (Served /\ cfg.EnableCache) =>
        \A k \in DOMAIN last.before :
            (Usable(k) /\ (k = FullPath \/ OnlyLiveMatch(k)))
                => ServedFromCache(last.before[k].Target)

C1_Witness ==
    /\ Served
    /\ FullPath = "h/ab"
    /\ "h/a*" \in DOMAIN last.before
    /\ Usable("h/a*")
    /\ OnlyLiveMatch("h/a*")
    /\ last.relayed
    /\ ServedFromCache("b")

\* C2: an entry stored at instant s with TTL t expires at s+t; a lookup of a
\* matching path at instant n finds something when n < s+t, and never returns
\* that entry when n >= s+t although it is still in the cache.
C2_ExpiryHonoured ==
    /\ StoreInstructed =>
           /\ StoreKey \in DOMAIN cache
           /\ cache[StoreKey].ExpiresAt = now + ResolveTTL(last.platform[1].did.ttl)
    /\ (Served /\ cfg.EnableCache) =>
           \A k \in DOMAIN last.before :
               matchesPattern(FullPath, k) =>
                   /\ last.at < last.before[k].ExpiresAt => last.cached # <<>>
                   /\ last.at >= last.before[k].ExpiresAt => last.cached # <<last.before[k]>>

C2_Witness ==
    /\ Served
    /\ cfg.EnableCache
    /\ \E k \in DOMAIN last.before :
           /\ matchesPattern(FullPath, k)
           /\ last.at = last.before[k].ExpiresAt
           /\ last.cached = <<>>

\* C3: a lookup hit on an entry with allowBypass, for a request carrying
\* fly-replay-cache-control: skip, is not served from the cache: the authority
\* is invoked, and if it replays to a configured app the forwarded request
\* carries fly-replay-cache-status: bypass.
C3_PermittedBypass ==
    (Served /\ last.cached # <<>> /\ last.cached[1].AllowBypass /\ SkipAsked) =>
        /\ AuthorityInvoked
        /\ (Replayed /\ IsApp(ReplayApp)) =>
               /\ last.state = "Forwarded"
               /\ last.fwd[1].req.Status = <<"bypass">>

C3_Witness ==
    /\ Served
    /\ last.cached # <<>>
    /\ last.cached[1].AllowBypass
    /\ SkipAsked
    /\ Replayed
    /\ last.relayed
    /\ last.fwd[1].req.Status = <<"bypass">>

\* C4: a hit on an entry without allowBypass whose target is configured is
\* forwarded from the cache with status hit, the authority not invoked, even
\* when the request carries fly-replay-cache-control: skip.
C4_BypassNotPermitted ==
    (Served /\ last.cached # <<>> /\ ~last.cached[1].AllowBypass
            /\ IsApp(last.cached[1].Target) /\ SkipAsked) =>
        ServedFromCache(last.cached[1].Target)

C4_Witness ==
    /\ Served
    /\ last.cached # <<>>
    /\ ~last.cached[1].AllowBypass
    /\ SkipAsked
    /\ last.relayed
    /\ ServedFromCache(last.cached[1].Target)

\* C5: when the authority's response names a configured app A in fly-replay,
\* the request goes to the forwarding proxy with A's domain (which relays it
\* unless the domain does not parse) and the authority's response is not sent
\* to the client; without a fly-replay-cache header the cache is unchanged.
C5_ReplayForwards ==
    (Replayed /\ IsApp(ReplayApp)) =>
        /\ last.state = "Forwarded"
        /\ last.fwd[1].domain = Apps[ReplayApp]
        /\ last.relayed <=> URLParseOK(NormalizeDomain(Apps[ReplayApp]))
        /\ ~Flushed
        /\ last.platform[1].did.cache = "" => cache = last.before

C5_Witness ==
    /\ Replayed
    /\ ReplayApp = "b"
    /\ last.platform[1].did.cache = ""
    /\ last.relayed
    /\ last.fwd[1].domain = "b:1"
    /\ last.before # <<>>
    /\ cache = last.before

\* C6: when the replay instruction names an app that is not configured (the
\* empty name included), the client receives 502, the request is not
\* forwarded and the handler returns no error.
C6_UnknownAppBadGateway ==
    (Replayed /\ ~IsApp(ReplayApp)) =>
        /\ last.state = "BadGateway"
        /\ last.w.status = 502
        /\ last.fwd = <<>>
        /\ ~last.relayed
        /\ last.err = ""

C6_Witness ==
    /\ Replayed
    /\ last.platform[1].did.replay = "i=1"
    /\ ReplayApp = ""
    /\ last.w.status = 502

\* C7: when the authority delegate returns an error, the request ends with
\* that error; no cache entry is stored or removed, nothing is written to the
\* client, no backend is contacted, and a matching entry is no fallback.
C7_DelegateErrorPropagates ==
    (Served /\ AuthorityInvoked /\ last.platform[1].did.err # "") =>
        /\ last.state = "DelegateError"
        /\ last.err = last.platform[1].did.err
        /\ cache = last.before
        /\ ~Flushed
        /\ last.fwd = <<>>
        /\ ~last.relayed

C7_Witness ==
    /\ Served
    /\ AuthorityInvoked
    /\ last.platform[1].did.err = "boom"
    /\ last.platform[1].did.cache = "/a*"
    /\ last.cached # <<>>
    /\ last.err = "boom"

\* C8: when the authority's response has no fly-replay header, the client
\* receives exactly what the authority wrote to the recorder: the same
\* headers (and no others from the handler), the status last set (200 if
\* none) and the same body; no backend is contacted.
C8_DirectResponseVerbatim ==
    (Served /\ AuthorityInvoked /\ last.platform[1].did.err = ""
            /\ last.platform[1].did.replay = "") =>
        /\ last.state = "DirectResponse"
        /\ last.w.header = Recorder(last.platform[1].did).header
        /\ last.w.debug = NoDebug
        /\ last.w.status = (IF last.platform[1].did.code = 0 THEN 200
                                                             ELSE last.platform[1].did.code)
        /\ last.w.body = last.platform[1].did.body
        /\ last.fwd = <<>>
        /\ ~last.relayed

\* C9: the stored TTL is the fly-replay-cache-ttl-secs value when it parses as
\* an integer >= 10 and the configured default otherwise; the store happens
\* in all these cases and the request does not fail for it.
C9_StoredTTL ==
    StoreInstructed =>
        /\ StoreKey \in DOMAIN cache
        /\ cache[StoreKey].ExpiresAt - now =
               (IF Atoi(last.platform[1].did.ttl).ok /\ Atoi(last.platform[1].did.ttl).val >= 10
                THEN Atoi(last.platform[1].did.ttl).val
                ELSE cfg.CacheTTL)
        /\ last.state \in {"Forwarded", "BadGateway"}
        /\ last.err = ""

C9_Witness ==
    /\ StoreInstructed
    /\ last.platform[1].did.ttl = "5"
    /\ cfg.CacheTTL = 1
    /\ cache[StoreKey].ExpiresAt = now + 1

\* C10: every request handed to a backend carries exactly one
\* fly-replay-cache-status value, whatever the client sent: hit iff it was
\* forwarded from the cache check without the authority, bypass iff the
\* authority was invoked because of a permitted bypass, miss otherwise.
C10_CacheStatusMarker ==
    last.state = "Forwarded" =>
        last.fwd[1].req.Status =
            <<IF ~AuthorityInvoked THEN "hit"
              ELSE IF last.cached # <<>> /\ last.cached[1].AllowBypass /\ SkipAsked
                   THEN "bypass"
                   ELSE "miss">>

C10_Witness ==
    /\ last.state = "Forwarded"
    /\ last.relayed
    /\ AuthorityInvoked
    /\ last.cached # <<>>
    /\ last.req.Status = <<"hit", "x">>
    /\ last.fwd[1].req.Status = <<"miss">>


\* the authority answered with fly-replay and fly-replay-cache: invalidate,
\* caching on
InvalidateInstructed ==
    /\ Replayed
    /\ cfg.EnableCache
    /\ last.platform[1].did.cache = "invalidate"

\* C11: after a request for H+x that matched a cache entry and whose authority
\* response carries fly-replay and fly-replay-cache: invalidate, no unexpired
\* entry of the cache matches H+x any more, whatever key it was stored under:
\* a lookup of H+x made right after the request finds nothing.
C11_InvalidatedLookupMisses ==
    (InvalidateInstructed /\ last.cached # <<>>) =>
        \A k \in DOMAIN cache : ~(matchesPattern(FullPath, k) /\ now < cache[k].ExpiresAt)

HandedOff ==
    {last.platform[i].req.Body : i \in DOMAIN last.platform}
    \cup {last.fwd[i].req.Body : i \in DOMAIN last.fwd}

\* C13: at every hand-off the request body is a fresh stream (nothing of it
\* read yet, no pending error) that holds exactly the bytes of the inbound
\* body, however much the authority read.
C13_BodyRestored ==
    (Served /\ ~last.req.Body.nil) =>
        \A b \in HandedOff :
            /\ ~b.nil
            /\ b.pos = 0
            /\ b.bytes = last.req.Body.bytes


\* C14: after a replay whose response carries a non-empty X-Trace-ID, the
\* request forwarded to the backend carries exactly that value in place of
\* whatever the client sent; when the response has no X-Trace-ID, or the
\* request is forwarded straight from a cache hit, the forwarded request's
\* X-Trace-ID values are the ones the client sent.
C14_TraceIdCopied ==
    last.state = "Forwarded" =>
        IF Replayed /\ last.platform[1].did.trace # ""
        THEN last.fwd[1].req.Trace = <<last.platform[1].did.trace>>
        ELSE last.fwd[1].req.Trace = last.req.Trace

\* a replay replaced the client's trace id by the authority's
C14_Witness ==
    /\ last.state = "Forwarded"
    /\ Replayed
    /\ last.platform[1].did.trace = "t"
    /\ last.req.Trace = <<"c", "d">>
    /\ last.fwd[1].req.Trace = <<"t">>


\* number of wildcard markers in s
Wildcards(s) == Cardinality({i \in 1 .. Len(s) : Char(s, i) = "*"})

\* matchesPattern was called and returned probe.matched
Matched == probe.op = "matched"

\* C15: for a pattern prefix + "*" and any path, matchesPattern is true
\* exactly when the path starts with prefix.
C15_TrailingWildcardIsPrefix ==
    (Matched /\ Len(probe.pattern) > 0 /\ Char(probe.pattern, Len(probe.pattern)) = "*") =>
        (probe.matched <=>
            HasPrefix(probe.path, SubSeq(probe.pattern, 1, Len(probe.pattern) - 1)))

\* a prefix that itself holds a wildcard marker is matched literally
C15_Witness ==
    /\ Matched
    /\ probe.pattern = "a**"
    /\ probe.path = "a*b"
    /\ probe.matched

\* C16: for a pattern a + "*" + b with a and b non-empty and no other
\* wildcard, every path that starts with a and ends with b matches, also when
\* the two pieces overlap in the path.
C16_PrefixAndSuffixSuffice ==
    Matched =>
        \A i \in 2 .. Len(probe.pattern) - 1 :
            ( /\ Char(probe.pattern, i) = "*"
              /\ Wildcards(probe.pattern) = 1
              /\ HasPrefix(probe.path, SubSeq(probe.pattern, 1, i - 1))
              /\ HasSuffix(probe.path, SubSeq(probe.pattern, i + 1, Len(probe.pattern))) )
            => probe.matched

\* the path is shorter than the two pieces together
C16_Witness ==
    /\ Matched
    /\ probe.pattern = "a*a"
    /\ probe.path = "a"
    /\ probe.matched

\* C17: a second Set with the same arguments at the same instant changes
\* nothing: the keys are the same and the entry under the key holds the same
\* target, allowBypass, sourcePath and expiresAt as after the first call, so
\* every lookup gives the same result.
C17_StoreIdempotent ==
    probe.op = "set2" =>
        /\ DOMAIN cache = DOMAIN probe.once
        /\ \A k \in DOMAIN cache : cache[k] = probe.once[k]
        /\ \A x \in {"h/ab", "h/b"} :
               \A t \in {now, now + probe.ttl - 1, now + probe.ttl} :
                   Get(cache, x, t) = Get(probe.once, x, t)

\* the two calls were made on a cache that held an entry already, and it
\* holds one under each key afterwards
C17_Witness ==
    /\ probe.op = "set2"
    /\ now > 0
    /\ DOMAIN cache = ProbeKeys
    /\ cache[probe.pattern].ExpiresAt = now + probe.ttl

\* C18: a lookup finds an entry exactly when, at that instant, the cache
\* holds an entry whose key matches the looked-up string and that has not
\* expired, and the entry found is one of those; an expired entry under the
\* key equal to the looked-up string does not hide them.
C18_LookupFindsLiveMatch ==
    (Served /\ cfg.EnableCache) =>
        /\ last.cached # <<>> <=>
               \E k \in DOMAIN last.before :
                   matchesPattern(FullPath, k) /\ last.at < last.before[k].ExpiresAt
        /\ last.cached # <<>> =>
               \E k \in DOMAIN last.before :
                   /\ last.cached[1] = last.before[k]
                   /\ matchesPattern(FullPath, k)
                   /\ last.at < last.before[k].ExpiresAt

\* an expired entry sits under the very key looked up and the lookup returns
\* the wildcard entry
C18_Witness ==
    /\ Served
    /\ FullPath \in DOMAIN last.before
    /\ last.at >= last.before[FullPath].ExpiresAt
    /\ last.cached # <<>>
    /\ last.cached[1].Pattern = "h/a*"

\* C19: for a pattern with two or more wildcard markers that does not end
\* with one, matchesPattern is true exactly when the path equals the pattern.
C19_ManyWildcardsExactOnly ==
    ( /\ Matched
      /\ Wildcards(probe.pattern) >= 2
      /\ Char(probe.pattern, Len(probe.pattern)) # "*" ) =>
        (probe.matched <=> probe.path = probe.pattern)


\* C20: a store replaces the whole entry under its key: afterwards the entry
\* holds exactly the new sourcePath, target, allowBypass and
\* expiresAt = now + ttl, whatever was there before, and the entries under
\* every other key are the ones that were there before.
C20_StoreReplacesEntry ==
    StoreInstructed =>
        /\ DOMAIN cache = DOMAIN last.before \cup {StoreKey}
        /\ cache[StoreKey] =
               [Path |-> FullPath, Target |-> ReplayApp, Pattern |-> StoreKey,
                AllowBypass |-> (last.platform[1].did.bypass = "yes"),
                ExpiresAt |-> now + ResolveTTL(last.platform[1].did.ttl)]
        /\ \A k \in DOMAIN last.before : k # StoreKey => cache[k] = last.before[k]

\* a re-store without allow-bypass cleared a bypass granted before, next to
\* an entry under another key
C20_Witness ==
    /\ StoreInstructed
    /\ StoreKey \in DOMAIN last.before
    /\ last.before[StoreKey].AllowBypass
    /\ ~cache[StoreKey].AllowBypass
    /\ DOMAIN cache # {StoreKey}


\* C21: handling a request changes the cache only through the cache
\* instruction, that is only when caching is on and the authority answered
\* (no error) with fly-replay and a non-empty fly-replay-cache; a lookup (also
\* over expired entries), a bypass, a hit, a direct response and a delegate
\* error leave the cache as it was, and with caching off nothing is found in
\* the cache and nothing is written to it.
C21_CacheChangedOnlyByInstruction ==
    Served =>
        /\ cache # last.before =>
               (cfg.EnableCache /\ Replayed /\ last.platform[1].did.cache # "")
        /\ ~cfg.EnableCache => (last.cached = <<>> /\ cache = last.before)

\* a permitted bypass over a cache that also holds an expired entry, answered
\* directly by the authority although its response carries a cache instruction
C21_Witness ==
    /\ Served
    /\ last.cached # <<>>
    /\ SkipAsked
    /\ last.state = "DirectResponse"
    /\ last.platform[1].did.cache # ""
    /\ \E k \in DOMAIN last.before : last.at >= last.before[k].ExpiresAt
    /\ cache = last.before


\* the lookup found an entry, no bypass was permitted, and the entry's target
\* is not a configured application
HitOnUnknownTarget ==
    /\ Served
    /\ last.cached # <<>>
    /\ ~(last.cached[1].AllowBypass /\ SkipAsked)
    /\ ~IsApp(last.cached[1].Target)

\* C22: a hit (no bypass) on an entry whose target is not configured falls
\* through to the authority and ends in a normal terminal state with the
\* outcome of a miss: the authority receives the request a miss would hand
\* it, a forwarded request is marked miss, and the client's response carries
\* no trace of the hit.
C22_UnknownTargetHandledAsMiss ==
    HitOnUnknownTarget =>
        /\ AuthorityInvoked
        /\ last.state \in {"DirectResponse", "Forwarded", "BadGateway", "DelegateError"}
        /\ last.platform[1].req.Status = last.req.Status
        /\ last.state = "Forwarded" => last.fwd[1].req.Status = <<"miss">>
        /\ last.w.debug.XCachedApp = ""

\* C30: the request handed to the authority carries no
\* fly-replay-cache-status written by the handler: its values are the ones the
\* client sent, and hit is written only onto a request for which the
\* authority is never invoked.
C30_AuthoritySeesNoMarker ==
    AuthorityInvoked => last.platform[1].req.Status = last.req.Status


\* C23: a sweep removes exactly the entries a lookup at that instant refuses
\* as expired (expiresAt not after now, expiresAt = now included) and leaves
\* every other entry as it was, so no entry is left that a lookup would skip.
C23_SweepRemovesWhatLookupRefuses ==
    [][Clean =>
        /\ DOMAIN cache' = {k \in DOMAIN cache : now < cache[k].ExpiresAt}
        /\ \A k \in DOMAIN cache' : cache'[k] = cache[k]]_vars


\* how the request just handled ended, read off what it did: it was handed to
\* the forwarding proxy, the recorded response was flushed, the handler wrote
\* the error response, or the delegate's error was returned
Endings ==
    {e \in {"Forwarded", "DirectResponse", "BadGateway", "DelegateError"} :
        \/ e = "Forwarded" /\ last.fwd # <<>>
        \/ e = "DirectResponse" /\ \E i \in DOMAIN last.w.wrote : last.w.wrote[i] = "recorded"
        \/ e = "BadGateway" /\ \E i \in DOMAIN last.w.wrote : last.w.wrote[i] = "error"
        \/ e = "DelegateError" /\ AuthorityInvoked /\ last.platform[1].did.err # ""
                               /\ last.err = last.platform[1].did.err}

\* C27: every request ends in exactly one terminal state and the client is
\* answered from at most one source; the recorded response of the authority
\* is flushed at most once, only when it has no fly-replay header, and
\* nothing the authority wrote reaches the client otherwise (not when it
\* returned an error after writing, not when fly-replay is present).
C27_OneEndingOneAnswer ==
    Served =>
        /\ Endings = {last.state}
        /\ Len(last.w.wrote) <= 1
        /\ last.state = "DirectResponse" =>
               /\ AuthorityInvoked
               /\ last.platform[1].did.err = ""
               /\ last.platform[1].did.replay = ""
        /\ last.state # "DirectResponse" =>
               /\ last.w.header = NoHeader
               /\ last.state # "BadGateway" => (last.w.status = 0 /\ last.w.body = "")

\* the authority wrote a response body and then returned an error: the
\* client's writer is untouched
C27_Witness ==
    /\ Served
    /\ last.state = "DelegateError"
    /\ last.platform[1].did.body # ""
    /\ last.w = FreshWriter


\* the client's writer without its diagnostic headers
Undiagnosed(w) == [w EXCEPT !.debug = NoDebug]

\* C29: the debug flag changes only diagnostic response headers.  Two
\* handlers that differ only in the flag and get the same request, answer of
\* the authority, cache and instant end in the same terminal state with the
\* same error, hand the same request to the authority and to the same
\* backend, leave the cache in the same state and send the client the same
\* response apart from the diagnostic headers.
C29_DebugOnlyDiagnostic ==
    twin.phase = "done" =>
        /\ twin.first[1].state = twin.second[1].state
        /\ twin.first[1].err = twin.second[1].err
        /\ twin.first[1].platform = twin.second[1].platform
        /\ twin.first[1].fwd = twin.second[1].fwd
        /\ twin.first[1].relayed = twin.second[1].relayed
        /\ twin.first[1].store = twin.second[1].store
        /\ Undiagnosed(twin.first[1].w) = Undiagnosed(twin.second[1].w)

\* the two responses differ in their diagnostic headers, the request was
\* forwarded after a replay and the cache changed
C29_Witness ==
    /\ twin.phase = "done"
    /\ twin.first[1].w.debug # twin.second[1].w.debug
    /\ twin.first[1].state = "Forwarded"
    /\ twin.first[1].platform # <<>>
    /\ cache # last.before


-----------------------------------------------------------------------------
(* Claims about concurrently running requests *)

\* the goroutines inside a cache function that changes the map
WritersInside ==
    {p \in Procs : conc.pc[p] = "inMutate"}
    \cup (IF conc.sweeper = "inClean" THEN {Sweeper} ELSE {})

\* the goroutines inside Get
ReadersInside == {p \in Procs : conc.pc[p] = "inGet"}

\* C24: a store, invalidate or sweep inside its critical section is alone in
\* the cache: no lookup and no other writer is inside with it.  Lookups may
\* be inside together.
C24_WritersAlone ==
    /\ Cardinality(WritersInside) <= 1
    /\ WritersInside # {} => ReadersInside = {}

\* two lookups are inside Get at the same time
C24_Witness == ReadersInside = Procs

\* handler p was told by the authority to store a pattern
ToldToStore(p) ==
    /\ conc.loc[p].did # <<>>
    /\ conc.loc[p].did[1].err = ""
    /\ conc.loc[p].did[1].replay # ""
    /\ conc.loc[p].did[1].cache \notin {"", "invalidate"}

\* the key handler p stores under
KeyOf(p) == conc.loc[p].req.Host \o conc.loc[p].did[1].cache

\* both requests are finished, both missed and both stored under one key
BothMissedAndStored ==
    /\ \A p \in Procs : conc.pc[p] = "done" /\ conc.loc[p].cached = <<>>
                        /\ ToldToStore(p) /\ conc.loc[p].wrote
    /\ \A p, q \in Procs : KeyOf(p) = KeyOf(q)

\* C25: when two concurrent requests for the same uncached path have both
\* missed, both asked the authority and both stored under the same key, the
\* cache holds under that key the entry of the store executed last, whichever
\* request arrived first.
C25_LastStoreWins ==
    BothMissedAndStored =>
        LET w == conc.lastWrite
        IN  /\ KeyOf(w) \in DOMAIN cache
            /\ cache[KeyOf(w)].Target = parseAppName(conc.loc[w].did[1].replay)
            /\ cache[KeyOf(w)].AllowBypass = (conc.loc[w].did[1].bypass = "yes")
            /\ cache[KeyOf(w)].Path = conc.loc[w].req.Host \o conc.loc[w].req.Path

\* the request that arrived first stored last, and the two stored different
\* targets
C25_Witness ==
    /\ BothMissedAndStored
    /\ conc.arrived[1] = conc.lastWrite
    /\ \E p, q \in Procs :
           parseAppName(conc.loc[p].did[1].replay) # parseAppName(conc.loc[q].did[1].replay)

\* the place of a step in the handler's order
StepRank(step) ==
    IF step = "lookup" THEN 1 ELSE IF step = "delegate" THEN 2
    ELSE IF step = "mutate" THEN 3 ELSE 4

\* C26: within one request the steps are taken in the order lookup,
\* delegation, cache mutation, forward; the store or invalidate the authority
\* instructed is done before the request is handed to the backend, so once
\* the backend has the request a lookup sees the stored entry (as long as no
\* other request has written since).
C26_StepsInOrder ==
    \A p \in Procs :
        /\ \A i, j \in DOMAIN conc.loc[p].steps :
               i < j => StepRank(conc.loc[p].steps[i]) < StepRank(conc.loc[p].steps[j])
        /\ ( /\ conc.pc[p] = "relaying" \/ conc.loc[p].end = "Forwarded"
             /\ conc.loc[p].did # <<>>
             /\ cfg.EnableCache
             /\ conc.loc[p].did[1].cache # "" ) => conc.loc[p].wrote
        /\ ( /\ conc.pc[p] = "relaying"
             /\ ToldToStore(p)
             /\ conc.lastWrite = p ) =>
               \E e \in Get(cache, conc.loc[p].req.Host \o conc.loc[p].req.Path, now) :
                   e.Pattern = KeyOf(p)

\* a request that went through all four steps is with the backend
C26_Witness ==
    \E p \in Procs :
        /\ conc.pc[p] = "relaying"
        /\ conc.loc[p].steps = <<"lookup", "delegate", "mutate", "forward">>
        /\ ToldToStore(p)

\* C28: with every authority call and backend relay returning and fair
\* scheduling, every request that arrived reaches a terminal state, whatever
\* the other request and the sweeper do; a goroutine holds the cache lock
\* only inside Get, Set or Invalidate: not while it waits for the authority
\* or the backend, and not while it waits for the lock.
C28_EveryRequestEnds ==
    /\ [](\A p \in Procs :
            conc.pc[p] \notin {"inGet", "inMutate"}
                => p \notin conc.mu.readers \cup conc.mu.writer)
    /\ \A p \in Procs : (conc.pc[p] # "idle") ~> (conc.pc[p] = "done")

\* one request has stored and ended while the other waits for the lock the
\* sweeper holds
C28_Witness ==
    \E p, q \in Procs :
        /\ conc.pc[p] = "done"
        /\ conc.loc[p].wrote
        /\ conc.pc[q] = "mutate"
        /\ conc.sweeper = "inClean"

\* C32: every entry in the cache names a configured application; a request
\* that ends in BadGateway because its replay target is unknown or empty
\* leaves the cache as it found it, and the lookup never returns an entry
\* whose target cannot be forwarded to.
C32_EveryTargetConfigured ==
    /\ \A k \in DOMAIN cache : IsApp(cache[k].Target)
    /\ (Served /\ last.state = "BadGateway") => cache = last.before
    /\ (Served /\ last.cached # <<>>) => IsApp(last.cached[1].Target)

\* the host of a full path (r.Host + r.URL.Path): what precedes the first "/"
HostOf(fullPath) == SubSeq(fullPath, 1, IndexOf(fullPath, "/") - 1)

\* C31: whatever pattern the authority sent, the entry a lookup returns was
\* stored while handling a request for the host of the request looked up,
\* and a request served from the cache goes to the application its own host
\* is routed to.
C31_NoLeakAcrossHosts ==
    (Served /\ last.cached # <<>>) =>
        /\ HostOf(last.cached[1].Path) = last.req.Host
        /\ ~AuthorityInvoked =>
               "app=" \o last.cached[1].Target = HostApp(last.req.Host)

====
